---- MODULE Spec2Model ----
(***************************************************************************)
(* Model of Drupal.dialog as overridden by the vos_digital_solutions theme *)
(* (src/js/overrides/dialog.js): a dialog handle bound to one element,     *)
(* whose show / showModal / close / updateButtons methods mutate the       *)
(* element's modal skeleton and drive a Bootstrap-style modal library.     *)
(***************************************************************************)
EXTENDS Integers, Sequences, FiniteSets, TLC

VARIABLES
  heap,        \* the objects: drupalSettings.dialog, the caller's options, the last merged settings
  env,         \* what the host provides: skeleton, $element.modal, DrupalDialogEvent
  dialog,      \* the handle's fields: open, returnValue
  content,     \* children of .modal-dialog .modal-content, in document order
  dialogClass, \* class list of .modal-dialog
  attrs,       \* attributes and inline style the adapter writes on the element
  modalLib,    \* the modal library: its visibility and what it saw at the last 'show'
  events,      \* lifecycle events dispatched by the most recent handler, in order
  threw,       \* the most recent handler ended with an uncaught TypeError
  lastCall,    \* the most recent call or library notification, with its argument
  lastButtons, \* argument of the most recent updateButtons invocation
  opens        \* number of openDialog invocations so far

vars == <<heap, env, dialog, content, dialogClass, attrs, modalLib, events,
          threw, lastCall, lastButtons, opens>>

----------------------------------------------------------------------------
(* Bounds *)

MaxOpens == 3

----------------------------------------------------------------------------
(* JavaScript values *)

Undef == "undefined"

True == "true"

False == "false"

StrTrue == "'true'"

\* A class token is the sequence of its word-character runs, separated by
\* '-': btn-primary is <<"btn", "primary">>. A class list is a sequence of tokens.
NoToken == <<>>

NoButtons == [def |-> FALSE, items |-> <<>>]

ButtonsOf(items) == [def |-> TRUE, items |-> items]

Fields ==
  {"autoOpen", "dialogClasses", "dialogShowHeader", "dialogShowHeaderTitle",
   "dialogStatic", "dialogHeadingLevel", "buttonClass", "buttonPrimaryClass",
   "title", "modal", "buttons", "drupalAutoButtons", "autoResize"}

\* The value a property has when the object does not define it.
Absent(f) ==
  CASE f \in {"buttonClass", "buttonPrimaryClass"} -> NoToken
    [] f = "buttons" -> NoButtons
    [] f = "dialogHeadingLevel" -> 0
    [] OTHER -> Undef

EmptyObj == [f \in Fields |-> Absent(f)]

\* drupalSettings.dialog (its close callback is a function, not data).
DrupalSettingsDialog ==
  [EmptyObj EXCEPT
     !["autoOpen"] = True,
     !["dialogClasses"] = "",
     !["dialogShowHeader"] = True,
     !["dialogShowHeaderTitle"] = True,
     !["dialogStatic"] = False,
     !["dialogHeadingLevel"] = 5,
     !["buttonClass"] = <<"btn">>,
     !["buttonPrimaryClass"] = <<"btn", "primary">>]

\* One step of $.extend: properties of src that are not undefined overwrite target's.
ExtendOne(target, src) ==
  [f \in Fields |-> IF src[f] = Absent(f) THEN target[f] ELSE src[f]]

RECURSIVE Extend(_, _)
Extend(target, srcs) ==
  IF srcs = <<>> THEN target
  ELSE Extend(ExtendOne(target, Head(srcs)), Tail(srcs))

settingIsTrue(setting) ==
  setting # Undef /\ (setting = True \/ setting = StrTrue)

\* JSON.stringify keeps the properties that are defined.
JSONStringify(obj) ==
  [f \in {g \in Fields : obj[g] # Absent(g)} |-> obj[f]]

----------------------------------------------------------------------------
(* Class lists (jQuery attr / addClass) *)

HasToken(list, tok) == \E i \in 1..Len(list) : list[i] = tok

\* .addClass(tokens): each token not yet in the list is appended.
RECURSIVE addClass(_, _)
addClass(list, toks) ==
  IF toks = <<>> THEN list
  ELSE addClass(IF HasToken(list, Head(toks)) THEN list ELSE Append(list, Head(toks)),
                Tail(toks))

\* attr('class').match(/\bbtn-.*/): somewhere in the class string the word
\* "btn" starts at a word boundary and is followed by '-'.
MatchesBtnRegex(list) ==
  \E i \in 1..Len(list) : \E j \in 1..(Len(list[i]) - 1) : list[i][j] = "btn"

\* Tokens of a settings class: classes.join(' ') leaves an absent one out of the list.
ClassTokens(tok) == IF tok = NoToken THEN <<>> ELSE <<tok>>

----------------------------------------------------------------------------
(* updateButtons *)

\* The button built for one ButtonSpec: attributes, then class, then the fallback classes.
BuildButton(buttonObject, settings) ==
  LET fromAttributes ==
        IF buttonObject.attributes THEN buttonObject.attrClass ELSE <<>>
      withClass == addClass(fromAttributes, buttonObject.class)
      classes == ClassTokens(settings["buttonClass"])
                   \o ClassTokens(settings["buttonPrimaryClass"])
  IN [text |-> buttonObject.text,
      class |-> IF withClass # <<>> /\ ~MatchesBtnRegex(withClass)
                THEN addClass(withClass, classes)
                ELSE withClass]

\* $.each(buttons, ...): one button per ButtonSpec, in order; nothing for undefined.
BuildFooter(buttons, settings) ==
  [i \in 1..Len(buttons.items) |-> BuildButton(buttons.items[i], settings)]

Body == [tag |-> "body", title |-> <<>>, buttons |-> <<>>]

FooterNode(built) == [tag |-> "footer", title |-> <<>>, buttons |-> built]

IsFooter(node) == node.tag = "footer"

IsHeader(node) == node.tag = "header"

\* Faulty variant of RemoveFooters: the existing footer is left in place.
RemoveFootersSkipped(nodes) == nodes

\* $('.modal-dialog .modal-content .modal-footer', $element).remove()
RemoveFooters(nodes) == SelectSeq(nodes, LAMBDA n : ~IsFooter(n))

\* The children of .modal-content after updateButtons(buttons); with no
\* skeleton the selectors match nothing and nothing is removed or appended.
updateButtons(nodes, buttons, h, hasSkeleton) ==
  LET settings == Extend(EmptyObj, <<h.defaults, h.options>>)
      modalFooter == BuildFooter(buttons, settings)
      removed == RemoveFooters(nodes)
  IN IF ~hasSkeleton THEN nodes
     ELSE IF Len(modalFooter) > 0 THEN Append(removed, FooterNode(modalFooter))
     ELSE removed

----------------------------------------------------------------------------
(* dispatchDialogEvent *)

\* Listeners receive references: the handle itself and the bound element.
Handle == "dialog"

Element == "$element"

UndefinedArg == [kind |-> "undefined", obj |-> EmptyObj]

ObjectArg(obj) == [kind |-> "object", obj |-> obj]

\* Faulty variant of WindowTrigger: the settings are left out of the payload.
WindowTriggerNoSettings(eventType, dlg, settings) ==
  [type |-> eventType, path |-> "window", dialog |-> dlg,
   element |-> Element, settings |-> UndefinedArg]

\* The window-level trigger `dialog:<eventType>` with [dialog, $element, settings].
WindowTrigger(eventType, dlg, settings) ==
  [type |-> eventType, path |-> "window", dialog |-> dlg,
   element |-> Element, settings |-> settings]

\* new DrupalDialogEvent(eventType, dialog, settings || {}) dispatched on the element.
NativeEvent(eventType, dlg, settings) ==
  [type |-> eventType, path |-> "native", dialog |-> dlg,
   element |-> Element,
   settings |-> IF settings.kind = "undefined" THEN ObjectArg(EmptyObj) ELSE settings]

dispatchDialogEvent(eventType, dlg, settings, hasDialogEvent) ==
  IF ~hasDialogEvent
  THEN WindowTrigger(eventType, dlg, settings)
  ELSE NativeEvent(eventType, dlg, settings)

----------------------------------------------------------------------------
(* openDialog *)

\* Faulty variant of SettingsTarget: the merge writes into drupalSettings.dialog.
SettingsTargetDefaults == "defaults"

\* The first argument of $.extend in openDialog: the object the merge writes into.
SettingsTarget == "settings"

\* Truthiness of a setting, as `!settings.modal` reads it.
Truthy(v) == v # Undef /\ v # False /\ v # ""

CloseButton == [text |-> "&times;", class |-> <<<<"close">>, <<"btn", "close">>>>]

HeaderNode(settings) ==
  [tag |-> "header",
   title |-> IF settingIsTrue(settings["dialogShowHeaderTitle"])
             THEN <<settings["dialogHeadingLevel"], settings["title"]>>
             ELSE <<>>,
   buttons |-> <<CloseButton>>]

\* $('.modal-dialog', $element).removeAttr('class').addClass('modal-dialog').addClass(dialogClasses)
ResetDialogClass(cls, settings, hasSkeleton) ==
  IF settings["dialogClasses"] # Undef /\ hasSkeleton
  THEN <<"modal-dialog">>
         \o (IF settings["dialogClasses"] = "" THEN <<>> ELSE <<settings["dialogClasses"]>>)
  ELSE cls

\* Faulty variant of InsertHeader: the new header replaces the ones present.
InsertHeaderReplacing(nodes, settings, hasSkeleton) ==
  IF settingIsTrue(settings["dialogShowHeader"]) /\ hasSkeleton
  THEN <<HeaderNode(settings)>> \o SelectSeq(nodes, LAMBDA n : ~IsHeader(n))
  ELSE nodes

\* $(modalHeader).prependTo($('.modal-dialog .modal-content', $element))
InsertHeader(nodes, settings, hasSkeleton) ==
  IF settingIsTrue(settings["dialogShowHeader"]) /\ hasSkeleton
  THEN <<HeaderNode(settings)>> \o nodes
  ELSE nodes

\* Faulty variant of StaticAttrs: dialogStatic is ignored.
StaticAttrsIgnored(a, settings) == a

StaticAttrs(a, settings) ==
  IF settingIsTrue(settings["dialogStatic"])
  THEN [a EXCEPT !.backdrop = "static", !.keyboard = "false"]
  ELSE a

\* Faulty variant of NonModalAttrs: applied whatever settings.modal is.
NonModalAttrsAlways(a, settings, hasSkeleton) ==
  [a EXCEPT !.backdrop = "false", !.keyboard = "true",
            !.pointerEvents = "none",
            !.dialogPointerEvents = IF hasSkeleton THEN "auto" ELSE @]

NonModalAttrs(a, settings, hasSkeleton) ==
  IF ~Truthy(settings["modal"])
  THEN [a EXCEPT !.backdrop = "false", !.keyboard = "true",
                 !.pointerEvents = "none",
                 !.dialogPointerEvents = IF hasSkeleton THEN "auto" ELSE @]
  ELSE a

\* settings.buttons.length on a settings object with no buttons: a TypeError.
AutoButtonsThrows(settings) ==
  settingIsTrue(settings["drupalAutoButtons"]) /\ ~settings["buttons"].def

AutoButtons(settings) ==
  /\ settingIsTrue(settings["drupalAutoButtons"])
  /\ settings["buttons"].def
  /\ Len(settings["buttons"].items) > 0

\* $element.modal(settings); $element.modal('show')
ModalShow(lib, a) ==
  [state |-> IF lib.state = "hidden" THEN "shown" ELSE lib.state,
   backdrop |-> a.backdrop,
   keyboard |-> a.keyboard]

SuppressAutoResize(settings) == [settings EXCEPT !["autoResize"] = False]

RestoreAutoResize(settings, originalResizeSetting) ==
  [settings EXCEPT !["autoResize"] = originalResizeSetting]

openDialog(override, opName) ==
  LET fresh == [heap EXCEPT !["settings"] = EmptyObj]
      merged == Extend(fresh[SettingsTarget],
                       <<fresh.defaults, fresh.options, override>>)
      settings == merged
      hasSkeleton == env.skeleton
      e1 == dispatchDialogEvent("beforecreate", Handle, ObjectArg(settings),
                                env.DrupalDialogEvent)
      e2 == WindowTrigger("beforecreate", Handle, ObjectArg(settings))
      a1 == [attrs EXCEPT !.dataSettings = JSONStringify(settings)]
      a2 == StaticAttrs(a1, settings)
      a3 == NonModalAttrs(a2, settings, hasSkeleton)
      withHeader == InsertHeader(content, settings, hasSkeleton)
      throws == AutoButtonsThrows(settings)
      auto == AutoButtons(settings)
      e3 == dispatchDialogEvent("aftercreate", Handle,
                                ObjectArg(SuppressAutoResize(settings)),
                                env.DrupalDialogEvent)
      final == IF throws THEN settings
               ELSE RestoreAutoResize(SuppressAutoResize(settings),
                                      settings["autoResize"])
  IN /\ opens < MaxOpens
     /\ opens' = opens + 1
     /\ heap' = [fresh EXCEPT ![SettingsTarget] = final]
     /\ dialogClass' = ResetDialogClass(dialogClass, settings, hasSkeleton)
     /\ attrs' = a3
     /\ content' = IF auto
                   THEN updateButtons(withHeader, settings["buttons"], fresh, hasSkeleton)
                   ELSE withHeader
     /\ lastButtons' = IF auto
                       THEN [called |-> TRUE, buttons |-> settings["buttons"]]
                       ELSE lastButtons
     /\ modalLib' = IF ~throws /\ env.modal THEN ModalShow(modalLib, a3) ELSE modalLib
     /\ events' = IF throws THEN <<e1, e2>> ELSE <<e1, e2, e3>>
     /\ threw' = throws
     /\ lastCall' = [op |-> opName, arg |-> Undef]
     /\ UNCHANGED <<env, dialog>>

show == openDialog([EmptyObj EXCEPT !["modal"] = False], "show")

showModal == openDialog([EmptyObj EXCEPT !["modal"] = True], "showModal")

----------------------------------------------------------------------------
(* closeDialog and the library's hide notifications *)

\* dialog.close = () => { closeDialog({}); }
CloseArgument(value) == "{}"

closeDialog(value) ==
  LET hiding == env.modal /\ modalLib.state = "shown"
  IN /\ modalLib' = IF hiding THEN [modalLib EXCEPT !.state = "hiding"] ELSE modalLib
     \* hide.bs.modal is raised inside $element.modal('hide')
     /\ events' = IF hiding
                  THEN <<dispatchDialogEvent("beforeclose", Handle, UndefinedArg,
                                             env.DrupalDialogEvent)>>
                  ELSE <<>>
     /\ dialog' = [open |-> FALSE, returnValue |-> value]

close(value) ==
  /\ closeDialog(CloseArgument(value))
  /\ threw' = FALSE
  /\ lastCall' = [op |-> "close", arg |-> value]
  /\ UNCHANGED <<heap, env, content, dialogClass, attrs, lastButtons, opens>>

\* The library finishes hiding: hidden.bs.modal
hiddenBsModal ==
  /\ modalLib.state = "hiding"
  /\ modalLib' = [modalLib EXCEPT !.state = "hidden"]
  /\ events' = <<dispatchDialogEvent("afterclose", Handle, UndefinedArg,
                                     env.DrupalDialogEvent)>>
  /\ threw' = FALSE
  /\ lastCall' = [op |-> "hidden.bs.modal", arg |-> Undef]
  /\ UNCHANGED <<heap, env, dialog, content, dialogClass, attrs, lastButtons, opens>>

\* dialog.updateButtons(buttons)
dialogUpdateButtons(buttons) ==
  /\ content' = updateButtons(content, buttons, heap, env.skeleton)
  /\ lastButtons' = [called |-> TRUE, buttons |-> buttons]
  /\ events' = <<>>
  /\ threw' = FALSE
  /\ lastCall' = [op |-> "updateButtons", arg |-> Undef]
  /\ UNCHANGED <<heap, env, dialog, dialogClass, attrs, modalLib, opens>>

----------------------------------------------------------------------------
(* Inputs *)

OK == [text |-> "OK", attributes |-> FALSE, attrClass |-> <<>>, class |-> <<>>]

Cancel ==
  [text |-> "Cancel", attributes |-> FALSE, attrClass |-> <<>>,
   class |-> <<<<"btn", "secondary">>>>]

Go ==
  [text |-> "Go", attributes |-> TRUE, attrClass |-> <<<<"my", "button">>>>,
   class |-> <<<<"btn">>>>]

Odd ==
  [text |-> "Odd", attributes |-> TRUE, attrClass |-> <<>>,
   class |-> <<<<"my", "btn", "x">>>>]

\* What callers pass to updateButtons: nothing, an empty list, and lists of ButtonSpecs.
ButtonArguments ==
  {NoButtons, ButtonsOf(<<>>), ButtonsOf(<<OK>>), ButtonsOf(<<Cancel, Go>>),
   ButtonsOf(<<Odd, OK, Cancel>>)}

CloseValues == {Undef, "null", "ok"}

\* The options callers construct the dialog with: the header settings (with
\* the dialog classes and autoResize), dialogStatic, and the auto-button settings.
OptionsSet ==
  { [EmptyObj EXCEPT
       !["title"] = "Hi",
       !["dialogShowHeader"] = hd[1],
       !["dialogShowHeaderTitle"] = hd[2],
       !["dialogClasses"] = hd[3],
       !["autoResize"] = hd[4],
       !["dialogStatic"] = ds,
       !["drupalAutoButtons"] = ab[1],
       !["buttons"] = ab[2]] :
      hd \in { <<Undef, Undef, Undef, Undef>>,
               <<False, Undef, Undef, Undef>>,
               <<StrTrue, False, "modal-lg", True>> },
      ds \in {Undef, True},
      ab \in { <<Undef, ButtonsOf(<<OK, Cancel>>)>>,
               <<True, NoButtons>>,
               <<True, ButtonsOf(<<>>)>>,
               <<StrTrue, ButtonsOf(<<OK, Cancel>>)>> } }

\* What the host page provides: $element.modal and the DrupalDialogEvent constructor.
Hosts == { <<TRUE, TRUE>>, <<TRUE, FALSE>>, <<FALSE, FALSE>> }

OldHeader == [tag |-> "header", title |-> <<>>, buttons |-> <<>>]

OldFooter ==
  FooterNode(<<[text |-> "Stale", class |-> <<<<"btn">>>>]>>)

Markups == { <<Body>>, <<OldHeader, Body, OldFooter>> }

NoAttributes ==
  [backdrop |-> Undef, keyboard |-> Undef, pointerEvents |-> Undef,
   dialogPointerEvents |-> Undef, dataSettings |-> <<>>]

Init ==
  /\ \E o \in OptionsSet :
       heap = [defaults |-> DrupalSettingsDialog, options |-> o, settings |-> EmptyObj]
  /\ \E sk \in BOOLEAN, host \in Hosts :
       \E mk \in (IF sk THEN Markups ELSE {<<>>}) :
         /\ env = [skeleton |-> sk, modal |-> host[1], DrupalDialogEvent |-> host[2],
                   markup |-> mk]
         /\ content = mk
         /\ dialogClass = IF sk THEN <<"modal-dialog", "modal-sm">> ELSE <<>>
  /\ dialog = [open |-> FALSE, returnValue |-> Undef]
  /\ attrs = NoAttributes
  /\ modalLib = [state |-> "hidden", backdrop |-> Undef, keyboard |-> Undef]
  /\ events = <<>>
  /\ threw = FALSE
  /\ lastCall = [op |-> "Drupal.dialog", arg |-> Undef]
  /\ lastButtons = [called |-> FALSE, buttons |-> NoButtons]
  /\ opens = 0

Next ==
  \/ show
  \/ showModal
  \/ \E value \in CloseValues : close(value)
  \/ \E buttons \in ButtonArguments : dialogUpdateButtons(buttons)
  \/ hiddenBsModal

Spec == Init /\ [][Next]_vars

----------------------------------------------------------------------------
(* Properties *)

OpenCalls == {"show", "showModal"}

\* The settings an open merges: defaults < constructor options < the call's override.
MergedFor(opName) ==
  Extend(EmptyObj,
         <<DrupalSettingsDialog, heap.options,
           [EmptyObj EXCEPT !["modal"] = IF opName = "show" THEN False ELSE True]>>)

Footers == SelectSeq(content, IsFooter)

HeaderCount(nodes) == Len(SelectSeq(nodes, IsHeader))

Texts(buttons) == [i \in 1..Len(buttons) |-> buttons[i].text]

Occurrences(list, tok) == Cardinality({i \in 1..Len(list) : list[i] = tok})

\* A class token of the form btn-*.
IsBtnToken(tok) == Len(tok) >= 2 /\ tok[1] = "btn"

HasBtnToken(list) == \E i \in 1..Len(list) : IsBtnToken(list[i])

\* C1: after close(v) the handle has open = false and returnValue = v, for any v.
CloseStoresValue ==
  lastCall.op = "close" =>
    /\ dialog.open = FALSE
    /\ dialog.returnValue = lastCall.arg

\* C2: open is false on creation, true after show()/showModal() once the
\* underlying modal is shown, and false after close().
OpenStateMachine ==
  /\ lastCall.op = "Drupal.dialog" => dialog.open = FALSE
  /\ (lastCall.op \in OpenCalls /\ modalLib.state = "shown") => dialog.open = TRUE
  /\ lastCall.op = "close" => dialog.open = FALSE

\* C3: a built button whose resolved classes (attributes.class, then class)
\* hold a btn-* token gets no fallback class; every other button, also one
\* with no class at all, gets buttonClass and buttonPrimaryClass once each.
FallbackClassRule ==
  (lastButtons.called /\ env.skeleton) =>
    \A k \in 1..Len(Footers) :
      \A i \in (1..Len(Footers[k].buttons)) \cap (1..Len(lastButtons.buttons.items)) :
        LET buttonObject == lastButtons.buttons.items[i]
            resolved == addClass(IF buttonObject.attributes
                                 THEN buttonObject.attrClass ELSE <<>>,
                                 buttonObject.class)
            built == Footers[k].buttons[i].class
            settings == Extend(EmptyObj, <<heap.defaults, heap.options>>)
        IN IF HasBtnToken(resolved)
           THEN built = resolved
           ELSE /\ SubSeq(built, 1, Len(resolved)) = resolved
                /\ Occurrences(built, settings["buttonClass"]) = 1
                /\ Occurrences(built, settings["buttonPrimaryClass"]) = 1

\* C4: once updateButtons has run, .modal-content holds at most one
\* .modal-footer; it holds the buttons of the most recent updateButtons
\* call, in order, and no footer remains when that call had no buttons.
FooterReplaced ==
  lastButtons.called =>
    /\ Len(Footers) <= 1
    /\ Len(lastButtons.buttons.items) = 0 => Len(Footers) = 0
    /\ (env.skeleton /\ Len(lastButtons.buttons.items) > 0) =>
         /\ Len(Footers) = 1
         /\ Texts(Footers[1].buttons) = Texts(lastButtons.buttons.items)

FooterReplacedWitness ==
  /\ lastButtons.called
  /\ HeaderCount(env.markup) = 1
  /\ Len(Footers) = 1
  /\ Texts(Footers[1].buttons) = <<"Odd", "OK", "Cancel">>
  /\ opens >= 1

\* C5: show() sets data-bs-backdrop 'false' and data-bs-keyboard 'true';
\* showModal() leaves backdrop, keyboard and pointer-events as they were.
ModalAttributesUntouched ==
  [][ /\ lastCall'.op = "show" =>
           (attrs'.backdrop = "false" /\ attrs'.keyboard = "true")
      /\ lastCall'.op = "showModal" =>
           /\ attrs'.backdrop = attrs.backdrop
           /\ attrs'.keyboard = attrs.keyboard
           /\ attrs'.pointerEvents = attrs.pointerEvents
           /\ attrs'.dialogPointerEvents = attrs.dialogPointerEvents ]_vars

\* C5, amended: show() sets data-bs-backdrop 'false' and data-bs-keyboard
\* 'true'; showModal() leaves the pointer-events values as they were, and
\* leaves backdrop and keyboard as they were unless dialogStatic is true,
\* in which case it sets them to 'static' and 'false'.
ModalAttributesUnlessStatic ==
  [][ /\ lastCall'.op = "show" =>
           (attrs'.backdrop = "false" /\ attrs'.keyboard = "true")
      /\ lastCall'.op = "showModal" =>
           /\ attrs'.pointerEvents = attrs.pointerEvents
           /\ attrs'.dialogPointerEvents = attrs.dialogPointerEvents
           /\ IF settingIsTrue(MergedFor("showModal")["dialogStatic"])
              THEN attrs'.backdrop = "static" /\ attrs'.keyboard = "false"
              ELSE attrs'.backdrop = attrs.backdrop /\ attrs'.keyboard = attrs.keyboard
    ]_vars

ModalAttributesWitness ==
  /\ lastCall.op = "showModal"
  /\ attrs.pointerEvents = "none"
  /\ attrs.backdrop = "false"
  /\ attrs.keyboard = "true"

\* The modal library has been asked to show by the open that just completed.
AskedToShow(opName) == lastCall.op = opName /\ ~threw /\ env.modal

\* C6: an open with dialogStatic true, by show() or showModal(), leaves
\* data-bs-backdrop 'static' and data-bs-keyboard 'false', and the modal
\* library sees those values when it is asked to show.
StaticOnEveryOpen ==
  (lastCall.op \in OpenCalls /\ ~threw
     /\ settingIsTrue(MergedFor(lastCall.op)["dialogStatic"])) =>
    /\ attrs.backdrop = "static" /\ attrs.keyboard = "false"
    /\ env.modal => (modalLib.backdrop = "static" /\ modalLib.keyboard = "false")

\* C6, amended: a showModal() with dialogStatic true leaves data-bs-backdrop
\* 'static' and data-bs-keyboard 'false', and the modal library sees those
\* values when it is asked to show; a show() leaves 'false' and 'true'
\* whatever dialogStatic is, and those are what the library sees.
StaticOnShowModal ==
  /\ (lastCall.op = "showModal" /\ ~threw
        /\ settingIsTrue(MergedFor("showModal")["dialogStatic"])) =>
       /\ attrs.backdrop = "static" /\ attrs.keyboard = "false"
       /\ env.modal => (modalLib.backdrop = "static" /\ modalLib.keyboard = "false")
  /\ (lastCall.op = "show" /\ ~threw) =>
       /\ attrs.backdrop = "false" /\ attrs.keyboard = "true"
       /\ env.modal => (modalLib.backdrop = "false" /\ modalLib.keyboard = "true")

StaticOnShowModalWitness ==
  /\ AskedToShow("showModal")
  /\ heap.options["dialogStatic"] = True
  /\ modalLib.state = "shown"
  /\ modalLib.backdrop = "static"
  /\ attrs.pointerEvents = "none"

\* C7: show()/showModal() never throws, whatever the options, skeleton
\* and host, and dispatches aftercreate after beforecreate.
OpenNeverThrows ==
  lastCall.op \in OpenCalls =>
    /\ ~threw
    /\ \E i, j \in 1..Len(events) :
         i < j /\ events[i].type = "beforecreate" /\ events[j].type = "aftercreate"

\* The open whose merged settings the dialog currently has.
CreatingOpen == IF Truthy(heap.settings["modal"]) THEN "showModal" ELSE "show"

\* The settings object as aftercreate listeners see it.
DuringAfterCreate(settings) == [settings EXCEPT !["autoResize"] = False]

\* C8: each of beforecreate, aftercreate, beforeclose and afterclose carries
\* the handle, the element and the merged settings of the open that created
\* the dialog, on the native and on the window-level path.
EveryEventCarriesSettings ==
  \A i \in 1..Len(events) :
    LET e == events[i]
    IN /\ e.dialog = Handle
       /\ e.element = Element
       /\ e.settings.kind = "object"
       /\ e.settings.obj \in { MergedFor(CreatingOpen),
                               DuringAfterCreate(MergedFor(CreatingOpen)) }

\* C8, amended: every lifecycle event carries the handle and the element;
\* beforecreate carries the merged settings of the open, aftercreate the
\* same settings with autoResize false; beforeclose and afterclose carry no
\* settings: undefined on the window-level path, an empty object on the
\* native path.
EventPayloads ==
  \A i \in 1..Len(events) :
    LET e == events[i]
    IN /\ e.dialog = Handle
       /\ e.element = Element
       /\ e.path = "native" => env.DrupalDialogEvent
       /\ e.type = "beforecreate" =>
            e.settings = ObjectArg(MergedFor(lastCall.op))
       /\ e.type = "aftercreate" =>
            e.settings = ObjectArg(DuringAfterCreate(MergedFor(lastCall.op)))
       /\ e.type \in {"beforeclose", "afterclose"} =>
            e.settings = IF e.path = "native" THEN ObjectArg(EmptyObj)
                         ELSE UndefinedArg

EventPayloadsWitness ==
  /\ lastCall.op = "hidden.bs.modal"
  /\ Len(events) = 1
  /\ events[1].type = "afterclose"
  /\ events[1].path = "window"
  /\ events[1].settings = UndefinedArg
  /\ heap.settings["autoResize"] = True

\* C9: no show, showModal, close or updateButtons changes drupalSettings.dialog
\* or the caller's options; each open merges defaults < options < override
\* into a fresh object, and after the aftercreate dispatch that object has
\* its autoResize back.
DefaultsNeverMutated ==
  [][ /\ heap'.defaults = DrupalSettingsDialog
      /\ heap'.options = heap.options
      /\ lastCall'.op \in OpenCalls =>
           heap'.settings = Extend(EmptyObj,
                                   <<DrupalSettingsDialog, heap.options,
                                     [EmptyObj EXCEPT !["modal"] =
                                        IF lastCall'.op = "show" THEN False ELSE True]>>)
    ]_vars

DefaultsNeverMutatedWitness ==
  /\ lastCall.op = "show"
  /\ ~threw
  /\ heap.options["autoResize"] = True
  /\ \E i \in 1..Len(events) :
       /\ events[i].type = "aftercreate"
       /\ events[i].settings.obj["autoResize"] = False
  /\ heap.settings["autoResize"] = True
  /\ heap.defaults = DrupalSettingsDialog
  /\ opens >= 2

\* C10: on an element with the skeleton, the number of .modal-header nodes
\* is the markup's initial number plus the number of opens performed when
\* dialogShowHeader is true, and stays the initial number when it is not;
\* no close or later open removes one.
HeadersAdditive ==
  /\ env.skeleton =>
       HeaderCount(content) =
         HeaderCount(env.markup)
           + (IF settingIsTrue(MergedFor("show")["dialogShowHeader"]) THEN opens ELSE 0)
  /\ ~env.skeleton => HeaderCount(content) = 0

HeadersAdditiveWitness ==
  /\ env.skeleton
  /\ HeaderCount(env.markup) = 1
  /\ opens >= 2
  /\ lastCall.op = "close"
  /\ HeaderCount(content) = HeaderCount(env.markup) + opens

====
